---- MODULE Spec2Model ----
(***************************************************************************)
(* Model of wembeddings/wembeddings.py (WEmbeddings, ClientNetwork) and of *)
(* compute_conllu_embeddings.py (the command-line program).                *)
(*                                                                         *)
(* A word is represented by the number of subwords the tokenizer returns   *)
(* for it (after truncation to max_form_len).  A list of subword ids is    *)
(* kept run-length encoded: a sequence of runs <<token, n>>, where token   *)
(* names what the n ids stand for: <<"word", k, w>> the subwords of word w *)
(* of sentence k, <<"cls",0,0>> / <<"sep",0,0>> the boundary tokens and    *)
(* <<"pad",0,0>> the zero padding.  A list of segment indices is kept the  *)
(* same way, as runs <<index, n>>.                                         *)
(***************************************************************************)
EXTENDS Integers, Sequences, FiniteSets, TLC

VARIABLES
    mode,           \* which entry point runs: "lib", "cli" or "net"
    pc,             \* position in the running code
    error,          \* the exception that ended the run, "" when none
    warned,         \* "No such WEmbeddings model" was printed to stderr
    models,         \* keys of self._models
    model,          \* the model name argument
    sentences,      \* the sentences argument / the sentences loaded by the CLI
    i,              \* index of the sentence being processed (1-based)
    w,              \* number of words of sentence i already processed
    subwords,       \* list of subword lists, one per part
    segments,       \* list of segment index lists, one per part
    parts,          \* per sentence, the list of word counts of its parts
    max_sentence_len,
    max_subwords,
    np_subwords,    \* padded 2D array of subword ids
    np_segments,    \* padded 2D array of segment indices
    embeddings_with_parts,  \* output of model.compute_embeddings, per part
    embeddings,     \* list of per-sentence arrays
    current_sentence_part,
    result,         \* the returned list, <<>> before the return
    returned,       \* TRUE once compute_embeddings has returned
    lines,          \* CLI: lines of the input file
    ln,             \* CLI: number of lines read
    in_sentence,    \* CLI: in_sentence flag
    batch_size,     \* CLI: args.batch_size
    archive,        \* CLI: names of the entries written to the archive, in order
    requests,       \* net: number of HTTP requests issued
    response,       \* net: arrays in the response stream
    rpos            \* net: number of arrays read from the response

vars == <<mode, pc, error, warned, models, model, sentences, i, w, subwords,
          segments, parts, max_sentence_len, max_subwords, np_subwords,
          np_segments, embeddings_with_parts, embeddings,
          current_sentence_part, result, returned, lines, ln, in_sentence,
          batch_size, archive, requests, response, rpos>>

tokVars == <<i, w, subwords, segments, parts>>
padVars == <<max_sentence_len, max_subwords, np_subwords, np_segments>>
outVars == <<embeddings_with_parts, embeddings, current_sentence_part>>
cliVars == <<lines, ln, in_sentence, batch_size, archive>>
netVars == <<requests, response, rpos>>

----------------------------------------------------------------------------
(* Bounds of the model.                                                    *)

MaxBatch == 2
MaxTotalWords == 3
MaxLines == 3
MaxBatchSize == 2

(* Program constants.                                                      *)

MAX_SUBWORDS_PER_SENTENCE == 510

MODELS_MAP == {"bert-base-multilingual-uncased-last4", "xlm-roberta-base-last4"}

\* Model names a caller may pass: the registered ones and one that is not.
ModelNames == MODELS_MAP \cup {"no-such-model"}

\* A word stands for the number of subwords tokenizer.encode returns for it.
Words == {0, 1, MAX_SUBWORDS_PER_SENTENCE - 1, MAX_SUBWORDS_PER_SENTENCE + 1}

SentencesUpTo(t) == UNION {[1..l -> Words] : l \in 0..t}

RECURSIVE BatchesOf(_, _)
BatchesOf(n, t) ==
    IF n = 0 THEN {<<>>}
    ELSE UNION {{<<s>> \o b : b \in BatchesOf(n - 1, t - Len(s))} : s \in SentencesUpTo(t)}

Batches == UNION {BatchesOf(n, MaxTotalWords) : n \in 0..MaxBatch}

----------------------------------------------------------------------------
(* Helpers on Python lists and run-length encoded lists.                   *)

CLS == <<"cls", 0, 0>>
SEP == <<"sep", 0, 0>>
PAD == <<"pad", 0, 0>>
WordTok(k, j) == <<"word", k, j>>

Last(s) == s[Len(s)]
SetLast(s, x) == [s EXCEPT ![Len(s)] = x]

Max2(a, b) == IF a >= b THEN a ELSE b
Min2(a, b) == IF a <= b THEN a ELSE b

RECURSIVE MaxOf(_)
MaxOf(s) == IF Len(s) = 1 THEN s[1] ELSE Max2(s[1], MaxOf(Tail(s)))

RECURSIVE RunLen(_)
RunLen(rle) == IF rle = <<>> THEN 0 ELSE rle[1][2] + RunLen(Tail(rle))

\* list.extend([x] * n)
Extend(rle, x, n) == IF n = 0 THEN rle ELSE Append(rle, <<x, n>>)

\* list[1:]
DropFirst(rle) ==
    IF rle = <<>> THEN <<>>
    ELSE IF rle[1][2] = 1 THEN Tail(rle)
    ELSE <<<<rle[1][1], rle[1][2] - 1>>>> \o Tail(rle)

\* 1-based positions covered by run r of rle
RunStart(rle, r) == RunLen(SubSeq(rle, 1, r - 1)) + 1
RunEnd(rle, r) == RunLen(SubSeq(rle, 1, r))

\* tokenizer.encode(word[:max_form_len], add_special_tokens=False), as a length
EncodeLen(word) == word

\* tokenizer.build_inputs_with_special_tokens(ids)
build_inputs_with_special_tokens(ids) == <<<<CLS, 1>>>> \o ids \o <<<<SEP, 1>>>>

----------------------------------------------------------------------------
(* WEmbeddings.__init__ and the start of compute_embeddings.               *)

LibIdle ==
    /\ error = "" /\ warned = FALSE /\ models = {}
    /\ i = 0 /\ w = 0
    /\ subwords = <<>> /\ segments = <<>> /\ parts = <<>>
    /\ max_sentence_len = 0 /\ max_subwords = 0
    /\ np_subwords = <<>> /\ np_segments = <<>>
    /\ embeddings_with_parts = <<>> /\ embeddings = <<>>
    /\ current_sentence_part = 0 /\ result = <<>> /\ returned = FALSE

CliIdle ==
    /\ lines = <<>> /\ ln = 0 /\ in_sentence = FALSE /\ batch_size = 0
    /\ archive = <<>>

NetIdle == requests = 0 /\ response = <<>> /\ rpos = 0

InitLib ==
    /\ mode = "lib" /\ pc = "new" /\ model = "" /\ sentences = <<>>
    /\ LibIdle /\ CliIdle /\ NetIdle

\* WEmbeddings(model=m): m = "" stands for None (load every registered model).
Construct ==
    /\ mode = "lib" /\ pc = "new"
    /\ \E m \in ModelNames \cup {""} :
       /\ model' = m
       /\ IF m = ""
          THEN models' = MODELS_MAP /\ pc' = "idle" /\ error' = error
          ELSE IF m \in MODELS_MAP
          THEN models' = {m} /\ pc' = "idle" /\ error' = error
          ELSE models' = models /\ pc' = "failed" /\ error' = "KeyError"
    /\ UNCHANGED <<mode, warned, sentences, tokVars, padVars, outVars,
                   result, returned, cliVars, netVars>>

\* a caller invokes compute_embeddings(model, sentences)
Call ==
    /\ mode = "lib" /\ pc = "idle"
    /\ \E m \in ModelNames, s \in Batches : model' = m /\ sentences' = s
    /\ pc' = "lookup"
    /\ UNCHANGED <<mode, error, warned, models, tokVars, padVars, outVars,
                   result, returned, cliVars, netVars>>

\* a lookup that falls back to a loaded model instead of failing
LookupAnyModel(m) == TRUE

\* self._models[model] finds an entry
LookupModel(m) == m \in models

Lookup ==
    /\ mode = "lib" /\ pc = "lookup"
    /\ warned' = (model \notin models)
    /\ IF LookupModel(model)
       THEN /\ pc' = "sentence" /\ error' = error
            /\ i' = 0 /\ w' = 0
            /\ subwords' = <<>> /\ segments' = <<>> /\ parts' = <<>>
       ELSE /\ pc' = "failed" /\ error' = "KeyError"
            /\ UNCHANGED tokVars
    /\ UNCHANGED <<mode, models, model, sentences, padVars, outVars,
                   result, returned, cliVars, netVars>>

----------------------------------------------------------------------------
(* The tokenization loop.                                                  *)

\* faulty variants of the split test: the limit reached counts as exceeded; one
\* subword more is let in; the word about to be added is not counted
NeedSplitAtLimit(cur, n) == cur + n >= MAX_SUBWORDS_PER_SENTENCE
NeedSplitOffByOne(cur, n) == cur + n > MAX_SUBWORDS_PER_SENTENCE + 1
NeedSplitCurrentOnly(cur, n) == cur > MAX_SUBWORDS_PER_SENTENCE

NeedSplit(cur, n) == cur + n > MAX_SUBWORDS_PER_SENTENCE

\* a word count that skips the words without subwords
CountWordWithSubwords(count, n) == IF n = 0 THEN count ELSE count + 1

\* parts[-1][-1] += 1, after a word of n subwords
CountWord(count, n) == count + 1

StartSentence ==
    /\ mode = "lib" /\ pc = "sentence" /\ i < Len(sentences)
    /\ i' = i + 1 /\ w' = 0
    /\ segments' = Append(segments, <<>>)
    /\ subwords' = Append(subwords, <<>>)
    /\ parts' = Append(parts, <<0>>)
    /\ pc' = "word"
    /\ UNCHANGED <<mode, error, warned, models, model, sentences, padVars,
                   outVars, result, returned, cliVars, netVars>>

SplitSubwords(sw) == Append(SetLast(sw, build_inputs_with_special_tokens(Last(sw))), <<>>)

TokenizeWord ==
    /\ mode = "lib" /\ pc = "word" /\ w < Len(sentences[i])
    /\ LET n == EncodeLen(sentences[i][w + 1])
           split == NeedSplit(RunLen(Last(subwords)), n)
           sw1 == IF split THEN SplitSubwords(subwords) ELSE subwords
           sg1 == IF split THEN Append(segments, <<>>) ELSE segments
           ps1 == IF split THEN SetLast(parts, Append(Last(parts), 0)) ELSE parts
           seg == Last(Last(ps1))
       IN /\ segments' = SetLast(sg1, Extend(Last(sg1), seg, n))
          /\ subwords' = SetLast(sw1, Extend(Last(sw1), WordTok(i, w + 1), n))
          /\ parts' = SetLast(ps1, SetLast(Last(ps1), CountWord(seg, n)))
    /\ w' = w + 1
    /\ UNCHANGED <<mode, pc, error, warned, models, model, sentences, i,
                   padVars, outVars, result, returned, cliVars, netVars>>

EndSentence ==
    /\ mode = "lib" /\ pc = "word" /\ w = Len(sentences[i])
    /\ subwords' = SetLast(subwords, build_inputs_with_special_tokens(Last(subwords)))
    /\ pc' = "sentence"
    /\ UNCHANGED <<mode, error, warned, models, model, sentences, i, w,
                   segments, parts, padVars, outVars, result, returned,
                   cliVars, netVars>>

----------------------------------------------------------------------------
(* Padding into the numpy arrays.                                          *)

\* row[:len(x)] = x in an array of the given width filled with fill
PadRow(x, fill, width) == Extend(x, fill, width - RunLen(x))

\* the fill value of np_segments
SegmentsFill(maxlen) == maxlen

\* a width that leaves no room for the closing boundary token
SegmentsWidthNoBoundary(maxsub) == maxsub - 2

\* the width of np_segments
SegmentsWidth(maxsub) == maxsub - 1

Pad ==
    /\ mode = "lib" /\ pc = "sentence" /\ i = Len(sentences)
    /\ IF sentences = <<>>
       THEN \* max() of an empty sequence
            /\ pc' = "failed" /\ error' = "ValueError"
            /\ UNCHANGED padVars
       ELSE LET msl == MaxOf([k \in 1..Len(sentences) |-> Len(sentences[k])])
                msw == MaxOf([r \in 1..Len(subwords) |-> RunLen(subwords[r])])
            IN /\ max_sentence_len' = msl
               /\ max_subwords' = msw
               /\ np_subwords' = [r \in 1..Len(subwords) |-> PadRow(subwords[r], PAD, msw)]
               /\ np_segments' = [r \in 1..Len(segments) |->
                                     PadRow(segments[r], SegmentsFill(msl), SegmentsWidth(msw))]
               /\ pc' = "embed" /\ error' = error
    /\ UNCHANGED <<mode, warned, models, model, sentences, tokVars, outVars,
                   result, returned, cliVars, netVars>>

----------------------------------------------------------------------------
(* model.compute_embeddings: the transformer gives one embedding per       *)
(* position of a row; the first is dropped, the others are averaged per    *)
(* segment index, and the last segment is dropped.  An averaged embedding  *)
(* is represented by the set of <<token, n>> it is the mean of, together   *)
(* with the row and the slot it stands at.                                 *)

Overlap(a, ra, b, rb) ==
    Min2(RunEnd(a, ra), RunEnd(b, rb)) - Max2(RunStart(a, ra), RunStart(b, rb)) + 1

\* what tf.math.segment_mean averages into segment id
Bucket(emb, seg, id) ==
    {<<emb[a][1], Overlap(emb, a, seg, c)>> :
        <<a, c>> \in {x \in (1..Len(emb)) \X (1..Len(seg)) :
                         seg[x[2]][1] = id /\ Overlap(emb, x[1], seg, x[2]) > 0}}

Sorted(seg) == \A c \in 1..(Len(seg) - 1) : seg[c][1] <= seg[c + 1][1]

\* number of rows tf.math.segment_mean returns
NumSegments(seg) == IF seg = <<>> THEN 0 ELSE Last(seg)[1] + 1

\* average_subwords followed by [:-1] on the word axis
WordEmbeddings(r, emb, seg) ==
    [s \in 1..(NumSegments(seg) - 1) |->
        [row |-> r, slot |-> s, mean |-> Bucket(emb, seg, s - 1)]]

Embed ==
    /\ mode = "lib" /\ pc = "embed"
    /\ IF /\ \A r \in 1..Len(np_segments) : Sorted(np_segments[r])
          /\ \A r \in 1..Len(np_segments) :
                NumSegments(np_segments[r]) = NumSegments(np_segments[1])
       THEN /\ embeddings_with_parts' =
                  [r \in 1..Len(np_subwords) |->
                      WordEmbeddings(r, DropFirst(np_subwords[r]), np_segments[r])]
            /\ pc' = "concat" /\ error' = error
       ELSE /\ pc' = "failed" /\ error' = "InvalidArgumentError"
            /\ UNCHANGED embeddings_with_parts
    /\ embeddings' = <<>> /\ current_sentence_part' = 0
    /\ UNCHANGED <<mode, warned, models, model, sentences, tokVars, padVars,
                   result, returned, cliVars, netVars>>

----------------------------------------------------------------------------
(* Concatenation of the parts of each sentence.                            *)

\* x[:n]
Prefix(x, n) == SubSeq(x, 1, Min2(n, Len(x)))

RECURSIVE Concatenate(_)
Concatenate(xs) == IF xs = <<>> THEN <<>> ELSE xs[1] \o Concatenate(Tail(xs))

\* a row index that forgets the parts of the sentences before
PartRowNoOffset(csp, p) == p

\* the row of embeddings_with_parts that holds part p (1-based) of the
\* sentence whose first part follows csp rows
PartRow(csp, p) == csp + p

SentenceEmbedding(ewp, csp, sentence_parts) ==
    Concatenate([p \in 1..Len(sentence_parts) |->
                    Prefix(ewp[PartRow(csp, p)], sentence_parts[p])])

ConcatSentence ==
    /\ mode = "lib" /\ pc = "concat" /\ Len(embeddings) < Len(parts)
    /\ LET sentence_parts == parts[Len(embeddings) + 1]
       IN /\ embeddings' = Append(embeddings,
                SentenceEmbedding(embeddings_with_parts, current_sentence_part, sentence_parts))
          /\ current_sentence_part' = current_sentence_part + Len(sentence_parts)
    /\ UNCHANGED <<mode, pc, error, warned, models, model, sentences, tokVars,
                   padVars, embeddings_with_parts, result, returned, cliVars, netVars>>

Return ==
    /\ mode = "lib" /\ pc = "concat" /\ Len(embeddings) = Len(parts)
    /\ result' = embeddings /\ returned' = TRUE /\ pc' = "done"
    /\ UNCHANGED <<mode, error, warned, models, model, sentences, tokVars,
                   padVars, outVars, cliVars, netVars>>

----------------------------------------------------------------------------
(* compute_conllu_embeddings.py.  A line of the input file is a record:    *)
(* first says how the line starts ("empty": the line is empty; "id":       *)
(* digits or nothing, then a tab or the end of the line; "hash": a '#';    *)
(* "range": something else, such as the 1-2 of a multiword token), cols is *)
(* the number of tab-separated columns and form is the word in the second  *)
(* column.                                                                 *)

FileLines ==
    {[first |-> "empty", cols |-> 1, form |-> 1]}
         \cup {[first |-> "id", cols |-> c, form |-> 1] : c \in {1, 9, 10, 11}}
         \cup {[first |-> "hash", cols |-> 1, form |-> 1]}
         \cup {[first |-> "range", cols |-> c, form |-> 1] : c \in {9, 10}}

Files == UNION {[1..l -> FileLines] : l \in 0..MaxLines}

InitCli ==
    /\ mode = "cli" /\ pc = "load" /\ LibIdle /\ NetIdle
    /\ model \in ModelNames /\ sentences = <<>>
    /\ lines \in Files /\ ln = 0 /\ in_sentence = FALSE
    /\ batch_size \in 1..MaxBatchSize
    /\ archive = <<>>

\* not line (after rstrip("\n"))
IsEmpty(line) == line.first = "empty"

\* re.match(r"^[0-9]*\t", line)
IsTokenLine(line) == line.first = "id" /\ line.cols >= 2

\* a check that lets lines with extra columns through
ColumnsAtLeast(line) == line.cols >= 10

\* assert len(columns) == 10
ColumnsOk(line) == line.cols = 10

\* the body of the loop over the lines of the file
CliReadLine ==
    /\ mode = "cli" /\ pc = "load" /\ ln < Len(lines)
    /\ LET line == lines[ln + 1]
           opened == IF in_sentence THEN sentences ELSE Append(sentences, <<>>)
       IN IF IsEmpty(line)
          THEN /\ in_sentence' = FALSE
               /\ UNCHANGED <<sentences, pc, error>>
          ELSE IF IsTokenLine(line)
          THEN IF ColumnsOk(line)
               THEN /\ sentences' = SetLast(opened, Append(Last(opened), line.form))
                    /\ in_sentence' = TRUE
                    /\ UNCHANGED <<pc, error>>
               ELSE /\ sentences' = opened
                    /\ in_sentence' = TRUE
                    /\ pc' = "failed" /\ error' = "AssertionError"
          ELSE /\ sentences' = opened
               /\ in_sentence' = TRUE
               /\ UNCHANGED <<pc, error>>
    /\ ln' = ln + 1
    /\ UNCHANGED <<mode, warned, models, model, tokVars, padVars, outVars,
                   result, returned, lines, batch_size, archive, netVars>>

\* the end of the file: "Loaded CoNLL-U file ..." is printed
CliLoaded ==
    /\ mode = "cli" /\ pc = "load" /\ ln = Len(lines)
    /\ pc' = "construct"
    /\ UNCHANGED <<error, mode, warned, models, model, sentences, tokVars,
                   padVars, outVars, result, returned, cliVars, netVars>>

\* the parameters of WEmbeddings.__init__
InitParams == {"model", "max_form_len", "threads"}

\* WEmbeddings(models_map={args.model: WEmbeddings.MODELS_MAP[args.model]}):
\* the argument is evaluated first, then the call binds its keyword.
CliConstruct ==
    /\ mode = "cli" /\ pc = "construct"
    /\ IF model \notin MODELS_MAP
       THEN pc' = "failed" /\ error' = "KeyError" /\ models' = models
       ELSE IF "models_map" \notin InitParams
       THEN pc' = "failed" /\ error' = "TypeError" /\ models' = models
       ELSE pc' = "open" /\ error' = error /\ models' = {model}
    /\ UNCHANGED <<mode, warned, model, sentences, tokVars, padVars, outVars,
                   result, returned, cliVars, netVars>>

----------------------------------------------------------------------------
(* WEmbeddings.ClientNetwork.compute_embeddings.  The response stream is a *)
(* sequence of serialized arrays; "bad" is one np.lib.format.read_array    *)
(* rejects, and reading past the end of the stream fails as well.          *)

NetSentences == {[k \in 1..n |-> <<1>>] : n \in 0..MaxBatch}

StreamItems == {"a", "b", "bad"}

Streams == UNION {[1..l -> StreamItems] : l \in 0..(MaxBatch + 1)}

InitNet ==
    /\ mode = "net" /\ pc = "net_call" /\ LibIdle /\ CliIdle
    /\ model \in ModelNames /\ sentences \in NetSentences
    /\ requests = 0 /\ response = <<>> /\ rpos = 0

\* urllib.request.urlopen(url, data=...): the request fails or a response
\* stream is opened
NetRequest ==
    /\ mode = "net" /\ pc = "net_call"
    /\ requests' = requests + 1
    /\ \/ /\ pc' = "failed" /\ error' = "URLError"
          /\ UNCHANGED response
       \/ /\ response' \in Streams
          /\ pc' = "net_read" /\ error' = error
    /\ embeddings' = <<>>
    /\ UNCHANGED <<mode, warned, models, model, sentences, tokVars, padVars,
                   embeddings_with_parts, current_sentence_part, result,
                   returned, cliVars, rpos>>

\* a read that starts again at the head of the stream
ReadArrayFromStart(stream, pos) == stream[1]

\* the array np.lib.format.read_array reads after pos arrays were read
ReadArray(stream, pos) == stream[pos + 1]

\* the body of the loop: embeddings.append(read_array(response))
NetRead ==
    /\ mode = "net" /\ pc = "net_read" /\ Len(embeddings) < Len(sentences)
    /\ IF rpos < Len(response) /\ ReadArray(response, rpos) # "bad"
       THEN /\ embeddings' = Append(embeddings, ReadArray(response, rpos))
            /\ rpos' = rpos + 1
            /\ UNCHANGED <<pc, error>>
       ELSE /\ pc' = "failed" /\ error' = "ValueError"
            /\ UNCHANGED <<embeddings, rpos>>
    /\ UNCHANGED <<mode, warned, models, model, sentences, tokVars, padVars,
                   embeddings_with_parts, current_sentence_part, result,
                   returned, cliVars, requests, response>>

NetReturn ==
    /\ mode = "net" /\ pc = "net_read" /\ Len(embeddings) = Len(sentences)
    /\ result' = embeddings /\ returned' = TRUE /\ pc' = "done"
    /\ UNCHANGED <<mode, error, warned, models, model, sentences, tokVars,
                   padVars, outVars, cliVars, netVars>>

----------------------------------------------------------------------------
(* The specification: one of the three entry points runs.                 *)

Next ==
    \/ Construct
    \/ Call
    \/ Lookup
    \/ StartSentence
    \/ TokenizeWord
    \/ EndSentence
    \/ Pad
    \/ Embed
    \/ ConcatSentence
    \/ Return
    \/ CliReadLine
    \/ CliLoaded
    \/ CliConstruct
    \/ NetRequest
    \/ NetRead
    \/ NetReturn

Init == InitLib \/ InitCli \/ InitNet

Spec == Init /\ [][Next]_vars

----------------------------------------------------------------------------
(* Definitions used to state the properties.                               *)

RECURSIVE Sum(_)
Sum(s) == IF s = <<>> THEN 0 ELSE s[1] + Sum(Tail(s))

IsWordRun(run) == run[1][1] = "word"

\* the subwords of a part without its boundary tokens
Body(row) == SelectSeq(row, IsWordRun)

\* the word counts of all parts, in the order of the rows
FlatParts == Concatenate(parts)

\* the rows that hold the parts of sentence k
FirstRow(k) == Sum([j \in 1..(k - 1) |-> Len(parts[j])]) + 1
LastRow(k) == Sum([j \in 1..k |-> Len(parts[j])])

\* the tokenization loop has ended
TokDone ==
    /\ mode = "lib"
    /\ \/ pc = "sentence" /\ i = Len(sentences)
       \/ pc \in {"embed", "concat", "done"}

LibReturned == mode = "lib" /\ returned

----------------------------------------------------------------------------
\* C1: after the tokenization loop sum(parts[k]) = len(sentences[k]) for
\* every sentence k and the number of parts equals the number of rows of
\* the subword and segment arrays; the k-th returned array has exactly
\* len(sentences[k]) rows.
C1_RowsEqualWords ==
    /\ TokDone =>
          /\ Len(parts) = Len(sentences)
          /\ \A k \in 1..Len(sentences) : Sum(parts[k]) = Len(sentences[k])
          /\ Len(FlatParts) = Len(subwords)
          /\ Len(FlatParts) = Len(segments)
    /\ (mode = "lib" /\ pc \in {"embed", "concat", "done"}) =>
          /\ Len(np_subwords) = Len(FlatParts)
          /\ Len(np_segments) = Len(FlatParts)
    /\ LibReturned =>
          /\ Len(result) = Len(sentences)
          /\ \A k \in 1..Len(sentences) : Len(result[k]) = Len(sentences[k])

\* a returned batch with a sentence split into parts, an empty sentence and
\* a word without subwords
C1_Witness ==
    /\ LibReturned
    /\ \E k \in 1..Len(sentences) : Len(parts[k]) >= 2
    /\ \E k \in 1..Len(sentences) : sentences[k] = <<>>
    /\ \E k \in 1..Len(sentences) : \E j \in 1..Len(sentences[k]) : sentences[k][j] = 0

\* what the mean of the subwords of word j of sentence k is represented by
WordMean(k, j) ==
    IF sentences[k][j] = 0 THEN {} ELSE {<<WordTok(k, j), sentences[k][j]>>}

\* C2: row j of the k-th returned array is taken from a row of the padded
\* output that holds a part of sentence k and no word of another sentence,
\* at a slot averaged from the subwords of word j of sentence k only (so
\* from no padding and no boundary token), and rows follow part order.
C2_NoLeakage ==
    LibReturned =>
        \A k \in 1..Len(result) : \A j \in 1..Len(result[k]) :
            LET e == result[k][j] IN
            /\ e.row \in FirstRow(k)..LastRow(k)
            /\ \A c \in 1..Len(np_subwords[e.row]) :
                  IsWordRun(np_subwords[e.row][c]) => np_subwords[e.row][c][1][2] = k
            /\ e.slot \in 1..Len(embeddings_with_parts[e.row])
            /\ e = embeddings_with_parts[e.row][e.slot]
            /\ j <= Len(sentences[k])
            /\ e.mean = WordMean(k, j)
            /\ \A j2 \in (j + 1)..Len(result[k]) :
                  \/ e.row < result[k][j2].row
                  \/ e.row = result[k][j2].row /\ e.slot < result[k][j2].slot

\* a returned batch of two sentences, the first one split, the second one
\* not empty
C2_Witness ==
    /\ LibReturned
    /\ Len(sentences) = 2
    /\ Len(parts[1]) >= 2
    /\ Len(result[2]) >= 1

\* the names of the archive entries of sentences 0 .. n-1: arr_0 is 0, ...
ArchiveOf(n) == [e \in 1..n |-> e - 1]

\* the run of the command-line program has ended
CliEnded == mode = "cli" /\ pc \in {"done", "failed"}

\* C3: the run of the command-line program on a well-formed input of N
\* sentences with a registered model ends with the archive entries arr_0 ..
\* arr_(N-1), written in that order and once each.
C3_ArchiveComplete ==
    (CliEnded /\ model \in MODELS_MAP /\ error # "AssertionError") =>
        archive = ArchiveOf(Len(sentences))

\* C4: ClientNetwork.compute_embeddings issues one request per call; when
\* it returns, it returns len(sentences) arrays, the k-th being the k-th
\* array of the response stream; when the request or a read fails the
\* error ends the call: no second request, nothing returned.
C4_NetworkClient ==
    mode = "net" =>
        /\ requests = (IF pc = "net_call" THEN 0 ELSE 1)
        /\ returned <=> pc = "done"
        /\ returned =>
              /\ error = ""
              /\ Len(result) = Len(sentences)
              /\ Len(response) >= Len(sentences)
              /\ \A k \in 1..Len(result) : result[k] = response[k]
        /\ pc = "failed" <=> error # ""
        /\ pc = "failed" => result = <<>>
        /\ pc = "net_read" =>
              /\ rpos = Len(embeddings)
              /\ \A k \in 1..Len(embeddings) : embeddings[k] = response[k]

\* a returned call that read two different arrays
C4_Witness ==
    /\ mode = "net" /\ returned
    /\ Len(result) = 2 /\ result[1] # result[2]
    /\ Len(response) > 2

\* a model name that is given and is not in the registry
UnknownModel == model # "" /\ model \notin MODELS_MAP

NothingComputed ==
    /\ ~returned /\ result = <<>>
    /\ subwords = <<>> /\ embeddings_with_parts = <<>> /\ embeddings = <<>>
    /\ archive = <<>>

\* C5 as stated: whenever the local path fails on a model name that is not
\* in the registry, the warning was printed.
C5_AlwaysWarns ==
    (mode \in {"lib", "cli"} /\ UnknownModel /\ error = "KeyError") => warned

\* C5, amended: a model name that is not in the registry ends the local
\* path with a lookup error and nothing is computed, returned or written;
\* the warning is printed when the name was passed to compute_embeddings,
\* and is not when it was passed to the constructor or to the command-line
\* program.
C5_UnknownModel ==
    (mode \in {"lib", "cli"} /\ UnknownModel) =>
        /\ pc \in {"lookup", "load", "construct", "failed"}
        /\ NothingComputed
        /\ pc = "failed" => error \in {"KeyError", "AssertionError"}
        /\ error = "AssertionError" => mode = "cli"
        /\ warned <=> (mode = "lib" /\ models # {} /\ pc = "failed")
        /\ warned => error = "KeyError"

\* compute_embeddings was given an unknown name, warned and failed
C5_Witness ==
    /\ mode = "lib" /\ UnknownModel /\ models # {}
    /\ pc = "failed" /\ error = "KeyError" /\ warned

BodyLen(row) == RunLen(Body(row))

\* C6 as stated: every part holds at most MAX_SUBWORDS_PER_SENTENCE
\* subwords, boundary tokens not counted.
C6_AtMostMax ==
    mode = "lib" =>
        \A r \in 1..Len(subwords) : BodyLen(subwords[r]) <= MAX_SUBWORDS_PER_SENTENCE

\* C6, amended: a part holds at most MAX_SUBWORDS_PER_SENTENCE subwords,
\* unless it consists of one word that alone has more subwords than that.
C6_AtMostMaxOrOneWord ==
    mode = "lib" =>
        \A r \in 1..Len(subwords) :
            \/ BodyLen(subwords[r]) <= MAX_SUBWORDS_PER_SENTENCE
            \/ /\ Len(Body(subwords[r])) = 1
               /\ r <= Len(FlatParts)
               /\ FlatParts[r] = 1

\* a part above the limit and, in the same batch, a part of several words
\* that is exactly at the limit
C6_Witness ==
    /\ TokDone
    /\ \E r \in 1..Len(subwords) : BodyLen(subwords[r]) > MAX_SUBWORDS_PER_SENTENCE
    /\ \E r \in 1..Len(subwords) :
          /\ BodyLen(subwords[r]) = MAX_SUBWORDS_PER_SENTENCE
          /\ Len(Body(subwords[r])) >= 2

\* the runs of the words of sentence k from word j on, in order, words
\* without subwords left out
RECURSIVE WordRuns(_, _)
WordRuns(k, j) ==
    IF k > Len(sentences) THEN <<>>
    ELSE IF j > Len(sentences[k]) THEN WordRuns(k + 1, 1)
    ELSE Extend(<<>>, WordTok(k, j), sentences[k][j]) \o WordRuns(k, j + 1)

\* the subwords of all parts without the boundary tokens, in row order
AllBodies == Concatenate([r \in 1..Len(subwords) |-> Body(subwords[r])])

WrappedOnce(row) ==
    /\ Len(row) = Len(Body(row)) + 2
    /\ row[1] = <<CLS, 1>>
    /\ row[Len(row)] = <<SEP, 1>>

\* C7, the steps: a word of the sentence being processed opens a new part
\* exactly when the subwords of the current part plus its own exceed the
\* limit; the part left behind is wrapped and the word goes to the last
\* part as one run.
C7_SplitStep ==
    (mode = "lib" /\ pc = "word" /\ w' = w + 1) =>
        LET n == sentences[i][w + 1]
            exceeds == BodyLen(Last(subwords)) + n > MAX_SUBWORDS_PER_SENTENCE
        IN /\ Len(subwords') = Len(subwords) + (IF exceeds THEN 1 ELSE 0)
           /\ Len(segments') = Len(subwords')
           /\ \A r \in 1..(Len(subwords') - 1) : WrappedOnce(subwords'[r])
           /\ Body(Last(subwords')) = Last(subwords')
           /\ Last(subwords') =
                 Extend(IF exceeds THEN <<>> ELSE Last(subwords), WordTok(i, w + 1), n)

\* C7, the result: after the loop the parts in order hold the subwords of
\* the words in the original order, each word's in one run of one part,
\* none lost and none twice, and every part is wrapped exactly once.
C7_SplitResult ==
    TokDone =>
        /\ AllBodies = WordRuns(1, 1)
        /\ \A r \in 1..Len(subwords) : WrappedOnce(subwords[r])

\* C7: the tokenization loop splits greedily and only at word boundaries.
C7_GreedySplit == [][C7_SplitStep]_vars /\ []C7_SplitResult

\* the loop has ended on a sentence whose first part was filled exactly to
\* the limit by two words and closed early, and whose second part was
\* closed at the end of the sentence
C7_Witness ==
    /\ TokDone
    /\ Len(sentences) >= 1
    /\ Len(parts[1]) = 2 /\ parts[1][1] = 2 /\ parts[1][2] = 1
    /\ BodyLen(subwords[1]) = MAX_SUBWORDS_PER_SENTENCE
    /\ BodyLen(subwords[2]) >= 1

\* the padded arrays are built and about to be given to the model
Padded == mode = "lib" /\ pc = "embed"

\* C8: in every row of np_segments the pad value max_sentence_len occurs,
\* follows the real indices and is greater than each of them, and the real
\* indices do not decrease; every row then has max_sentence_len + 1
\* segments, the last of which averages only the closing boundary token
\* and padding, while no other segment averages either of them.
C8_SegmentRows ==
    Padded =>
        \A r \in 1..Len(np_segments) :
            LET row == np_segments[r]
                real == segments[r]
                emb == DropFirst(np_subwords[r])
            IN /\ Len(row) = Len(real) + 1
               /\ SubSeq(row, 1, Len(real)) = real
               /\ Last(row)[1] = max_sentence_len /\ Last(row)[2] >= 1
               /\ \A c \in 1..Len(real) : real[c][1] < max_sentence_len
               /\ \A c \in 1..(Len(real) - 1) : real[c][1] <= real[c + 1][1]
               /\ RunLen(row) = RunLen(emb)
               /\ NumSegments(row) = max_sentence_len + 1
               /\ \A t \in Bucket(emb, row, max_sentence_len) : t[1] \in {SEP, PAD}
               /\ SEP \in {t[1] : t \in Bucket(emb, row, max_sentence_len)}
               /\ \A id \in 0..(max_sentence_len - 1) :
                     \A t \in Bucket(emb, row, id) : t[1][1] = "word"

\* padded arrays of a batch with a split sentence and rows of different
\* lengths, one of them the longest (one pad value only)
C8_Witness ==
    /\ Padded
    /\ \E k \in 1..Len(parts) : Len(parts[k]) >= 2
    /\ \E r \in 1..Len(np_segments) : Last(np_segments[r]) = <<max_sentence_len, 1>>
    /\ \E r \in 1..Len(np_segments) : Last(np_segments[r])[2] > 1
    /\ max_sentence_len >= 2

\* the row that holds the subwords of word j of sentence k
RowOfWord(k, j) ==
    CHOOSE r \in 1..Len(subwords) :
        \E c \in 1..Len(subwords[r]) : subwords[r][c][1] = WordTok(k, j)

\* C9: a word with more subwords than the limit is alone in its part,
\* wherever it stands in its sentence, and its row of the returned array is
\* the mean of its own subwords.
C9_LongWordOwnPart ==
    /\ TokDone =>
          \A k \in 1..Len(sentences) : \A j \in 1..Len(sentences[k]) :
              sentences[k][j] > MAX_SUBWORDS_PER_SENTENCE =>
                  /\ \E r \in 1..Len(subwords) :
                        \E c \in 1..Len(subwords[r]) : subwords[r][c][1] = WordTok(k, j)
                  /\ Body(subwords[RowOfWord(k, j)]) = <<<<WordTok(k, j), sentences[k][j]>>>>
                  /\ FlatParts[RowOfWord(k, j)] = 1
                  /\ RowOfWord(k, j) \in FirstRow(k)..LastRow(k)
    /\ LibReturned =>
          \A k \in 1..Len(sentences) : \A j \in 1..Len(sentences[k]) :
              sentences[k][j] > MAX_SUBWORDS_PER_SENTENCE =>
                  /\ j <= Len(result[k])
                  /\ result[k][j].row = RowOfWord(k, j)
                  /\ result[k][j].slot = 1
                  /\ result[k][j].mean = {<<WordTok(k, j), sentences[k][j]>>}

\* a returned sentence with a long word between two short ones
C9_Witness ==
    /\ LibReturned
    /\ \E k \in 1..Len(sentences) :
          /\ Len(sentences[k]) = 3
          /\ sentences[k][1] \in 1..MAX_SUBWORDS_PER_SENTENCE
          /\ sentences[k][2] > MAX_SUBWORDS_PER_SENTENCE
          /\ sentences[k][3] \in 1..MAX_SUBWORDS_PER_SENTENCE

\* a line that starts like a token line and has not 10 columns
Malformed(line) == line.first = "id" /\ line.cols >= 2 /\ line.cols # 10

WellFormedToken(line) == line.first = "id" /\ line.cols = 10

\* C10: a malformed line ends the run with an assertion failure as soon as
\* it is read, before anything is computed or written; the run goes on
\* only over lines that are not malformed, and the words loaded are those
\* of the well-formed token lines.
C10_MalformedLineFatal ==
    mode = "cli" =>
        /\ error = "AssertionError" <=> \E l \in 1..ln : Malformed(lines[l])
        /\ error = "AssertionError" =>
              /\ pc = "failed"
              /\ Malformed(lines[ln])
              /\ \A l \in 1..(ln - 1) : ~Malformed(lines[l])
              /\ NothingComputed
        /\ Sum([k \in 1..Len(sentences) |-> Len(sentences[k])])
              = Cardinality({l \in 1..ln : WellFormedToken(lines[l])})

\* the run failed on a malformed line of 11 columns read after a
\* well-formed token line
C10_Witness ==
    /\ mode = "cli" /\ pc = "failed" /\ error = "AssertionError"
    /\ ln >= 2
    /\ lines[ln].cols = 11
    /\ WellFormedToken(lines[ln - 1])

====
